---- MODULE Spec2Model ----
(***************************************************************************)
(* Telemetry latency checker (src/app.py): the module-level load of the    *)
(* telemetry table, the column resolver _find_column and the request       *)
(* handler latency_check, as a state machine.                              *)
(*                                                                         *)
(* Python strings are sequences of one-character strings, so that lower(), *)
(* strip() and the substring test `in` are computed and not assumed.       *)
(* Python values are records: None, str, int, float (with NaN).  A float   *)
(* [k |-> "float", n |-> n, d |-> d] is the rational n/d; the model        *)
(* computes in exact rationals where the program computes in binary        *)
(* floating point.                                                         *)
(***************************************************************************)
EXTENDS Integers, Sequences, FiniteSets, TLC

VARIABLES
    _df,          \* module global: None, or a reference to the loaded frame
    _load_error,  \* module global: None, or str(e) of the failed load
    heap,         \* the DataFrame objects: object id -> frame (or Unallocated)
    loaded,       \* history: the frame exactly as read_csv returned it
    pc,           \* per request slot: position in latency_check
    payload,      \* per request slot: the Payload argument
    df,           \* per request slot: the local variable df (an object id)
    cols,         \* per request slot: latency_col, region_col, uptime_col
    response      \* per request slot: what latency_check returned or raised

vars == <<_df, _load_error, heap, loaded, pc, payload, df, cols, response>>

----------------------------------------------------------------------------
(* Bounds of the model *)

MaxRows == 2      \* rows of a generated telemetry table
MaxRegions == 2   \* length of payload.regions
MaxCols == 3      \* columns of a generated header (resolver specification)

----------------------------------------------------------------------------
(* Python values *)

PyNone == [k |-> "None"]
PyStr(s) == [k |-> "str", s |-> s]
PyInt(n) == [k |-> "int", n |-> n]
PyFloat(n, d) == [k |-> "float", n |-> n, d |-> d]
NaN == [k |-> "nan"]

IsNumber(x) == x.k \in {"int", "float"}

\* the value of a number in hundredths (cells hold at most two decimals)
Val100(x) == IF x.k = "int" THEN 100 * x.n ELSE x.n * (100 \div x.d)

----------------------------------------------------------------------------
(* str methods *)

UPPER == <<"A","B","C","D","E","F","G","H","I","J","K","L","M",
           "N","O","P","Q","R","S","T","U","V","W","X","Y","Z">>
LOWER == <<"a","b","c","d","e","f","g","h","i","j","k","l","m",
           "n","o","p","q","r","s","t","u","v","w","x","y","z">>
DIGITS == <<"0","1","2","3","4","5","6","7","8","9">>
WHITESPACE == {" ", "\t"}

LOWER_OF ==
    [c \in {UPPER[i] : i \in DOMAIN UPPER} |->
        LOWER[CHOOSE i \in DOMAIN UPPER : UPPER[i] = c]]

lower_char(c) == IF c \in DOMAIN LOWER_OF THEN LOWER_OF[c] ELSE c

\* s.lower()
str_lower(s) == [i \in 1..Len(s) |-> lower_char(s[i])]

\* s.strip()
str_strip(s) ==
    LET keep == {i \in 1..Len(s) : s[i] \notin WHITESPACE}
    IN  IF keep = {} THEN <<>>
        ELSE LET first == CHOOSE i \in keep : \A j \in keep : i <= j
                 last == CHOOSE i \in keep : \A j \in keep : j <= i
             IN  SubSeq(s, first, last)

\* sub in s
str_contains(sub, s) ==
    \E i \in 0..(Len(s) - Len(sub)) : SubSeq(s, i + 1, i + Len(sub)) = sub

----------------------------------------------------------------------------
(* _find_column *)

\* lower = {c.lower(): c for c in df.columns}: a later column overwrites an
\* earlier one with the same lowercased name
lower_dict(columns) ==
    [key \in {str_lower(columns[i]) : i \in DOMAIN columns} |->
        LET same == {i \in DOMAIN columns : str_lower(columns[i]) = key}
        IN  columns[CHOOSE i \in same : \A j \in same : j <= i]]

\* for cand in candidates: if cand in lower: return lower[cand]
RECURSIVE exact_pass(_, _, _)
exact_pass(lower, candidates, c) ==
    IF c > Len(candidates) THEN PyNone
    ELSE IF candidates[c] \in DOMAIN lower THEN PyStr(lower[candidates[c]])
    ELSE exact_pass(lower, candidates, c + 1)

\* the substring test of one (col, cand) pair of the second pass
substring_hit(col, cand) == str_contains(cand, str_lower(col))

\* the loops nested the other way: for cand in candidates: for col in columns
RECURSIVE substring_pass_by_candidate(_, _, _, _)
substring_pass_by_candidate(columns, candidates, i, c) ==
    IF c > Len(candidates) THEN PyNone
    ELSE IF i > Len(columns) THEN substring_pass_by_candidate(columns, candidates, 1, c + 1)
    ELSE IF substring_hit(columns[i], candidates[c]) THEN PyStr(columns[i])
    ELSE substring_pass_by_candidate(columns, candidates, i + 1, c)

\* for col in df.columns: for cand in candidates: if cand in col.lower(): return col
RECURSIVE substring_pass(_, _, _, _)
substring_pass(columns, candidates, i, c) ==
    IF i > Len(columns) THEN PyNone
    ELSE IF c > Len(candidates) THEN substring_pass(columns, candidates, i + 1, 1)
    ELSE IF substring_hit(columns[i], candidates[c]) THEN PyStr(columns[i])
    ELSE substring_pass(columns, candidates, i, c + 1)

\* the two passes in the other order: any substring match wins
_find_column_substring_first(columns, candidates) ==
    LET sub == substring_pass(columns, candidates, 1, 1)
    IN  IF sub # PyNone THEN sub
        ELSE exact_pass(lower_dict(columns), candidates, 1)

_find_column(columns, candidates) ==
    LET exact == exact_pass(lower_dict(columns), candidates, 1)
    IN  IF exact # PyNone THEN exact
        ELSE substring_pass(columns, candidates, 1, 1)

LATENCY_CANDIDATES ==
    << <<"l","a","t","e","n","c","y","_","m","s">>,
       <<"l","a","t","e","n","c","y">>,
       <<"r","t","t">>,
       <<"p","i","n","g","_","m","s">>,
       <<"p","i","n","g">> >>

REGION_CANDIDATES ==
    << <<"r","e","g","i","o","n">>,
       <<"r","e","g","i","o","n","_","n","a","m","e">>,
       <<"a","r","e","a">>,
       <<"l","o","c","a","t","i","o","n">> >>

UPTIME_CANDIDATES ==
    << <<"u","p","t","i","m","e">>,
       <<"a","v","a","i","l","a","b","i","l","i","t","y">>,
       <<"u","p">>,
       <<"a","v","a","i","l","a","b","i","l","i","t","y","_","p","c","t">> >>

----------------------------------------------------------------------------
(* Number formatting and parsing *)

digit_val(c) == (CHOOSE i \in DOMAIN DIGITS : DIGITS[i] = c) - 1

is_digits(s) ==
    /\ Len(s) > 0
    /\ \A i \in 1..Len(s) : \E j \in DOMAIN DIGITS : DIGITS[j] = s[i]

RECURSIVE digits_val(_)
digits_val(s) ==
    IF s = <<>> THEN 0
    ELSE 10 * digits_val(SubSeq(s, 1, Len(s) - 1)) + digit_val(s[Len(s)])

\* the numeric reading of a cell's text: an integer literal, a literal with
\* one or two decimals, anything else is not a number
parse_number(s) ==
    LET dots == {i \in 1..Len(s) : s[i] = "."}
    IN  IF dots = {} THEN
            IF is_digits(s) THEN PyInt(digits_val(s)) ELSE NaN
        ELSE IF Cardinality(dots) = 1 THEN
            LET p == CHOOSE i \in dots : TRUE
                whole == SubSeq(s, 1, p - 1)
                frac == SubSeq(s, p + 1, Len(s))
            IN  IF is_digits(whole) /\ is_digits(frac) /\ Len(frac) <= 2
                THEN PyFloat(100 * digits_val(whole)
                               + (IF Len(frac) = 1 THEN 10 ELSE 1) * digits_val(frac),
                             100)
                ELSE NaN
        ELSE NaN

\* str(n) of a non-negative int
RECURSIVE int_str(_)
int_str(n) ==
    IF n < 10 THEN <<DIGITS[n + 1]>>
    ELSE int_str(n \div 10) \o <<DIGITS[(n % 10) + 1]>>

\* str(x) of a non-negative float given in hundredths: 5.0, 1.5, 0.99
float_str(v100) ==
    LET f == v100 % 100
    IN  int_str(v100 \div 100) \o <<".">> \o
        (IF f % 10 = 0 THEN <<DIGITS[(f \div 10) + 1]>>
         ELSE <<DIGITS[(f \div 10) + 1], DIGITS[(f % 10) + 1]>>)

STR_NAN == <<"n","a","n">>

----------------------------------------------------------------------------
(* pandas: frames, series, dtypes *)

\* A frame is [columns |-> sequence of names, rows |-> sequence of rows], a
\* row being the sequence of its cells in column order.  A series is the
\* sequence of one column's cells.

Unallocated == [columns |-> <<>>, rows |-> <<>>, live |-> FALSE]

column_index(frame, name) ==
    CHOOSE i \in DOMAIN frame.columns : frame.columns[i] = name

\* df[name]
get_column(frame, name) ==
    [r \in 1..Len(frame.rows) |-> frame.rows[r][column_index(frame, name)]]

\* df[name] = series: replaces the column, or appends a new one
set_column(frame, name, series) ==
    IF \E i \in DOMAIN frame.columns : frame.columns[i] = name
    THEN [frame EXCEPT !.rows =
            [r \in 1..Len(frame.rows) |->
                [frame.rows[r] EXCEPT ![column_index(frame, name)] = series[r]]]]
    ELSE [frame EXCEPT !.columns = Append(frame.columns, name),
                       !.rows = [r \in 1..Len(frame.rows) |->
                                    Append(frame.rows[r], series[r])]]

\* series.dtype: object when it holds a str; float64 when it holds a float
\* or a missing value; int64 otherwise
\* (a series without rows has no cell to tell by: both branches of the dtype
\* test of the handler then give the same empty column)
series_dtype(series) ==
    IF \E r \in DOMAIN series : series[r].k = "str" THEN "object"
    ELSE IF \E r \in DOMAIN series : series[r].k \in {"float", "nan"} THEN "float64"
    ELSE "int64"

\* pd.read_csv: type inference per column.  A column whose cells are all
\* numbers or empty is numeric (empty = NaN); any other column keeps its
\* text, with empty cells NaN.
read_csv(csv) ==
    LET numeric(c) ==
            \A r \in DOMAIN csv.rows :
                csv.rows[r][c] = <<>> \/ parse_number(csv.rows[r][c]) # NaN
        cell(r, c) ==
            IF csv.rows[r][c] = <<>> THEN NaN
            ELSE IF numeric(c) THEN parse_number(csv.rows[r][c])
            ELSE PyStr(csv.rows[r][c])
    IN  [columns |-> csv.columns,
         rows |-> [r \in 1..Len(csv.rows) |->
                      [c \in 1..Len(csv.columns) |-> cell(r, c)]],
         live |-> TRUE]

\* pd.to_numeric(series, errors="coerce")
to_numeric(series) ==
    [r \in 1..Len(series) |->
        IF series[r].k = "str" THEN parse_number(series[r].s) ELSE series[r]]

\* series.astype(str)
astype_str(series) ==
    LET dtype == series_dtype(series)
        text(x) ==
            IF x.k = "str" THEN x.s
            ELSE IF x.k = "nan" THEN STR_NAN
            ELSE IF dtype = "int64" THEN int_str(x.n)
            ELSE float_str(Val100(x))
    IN  [r \in 1..Len(series) |-> PyStr(text(series[r]))]

\* the values of a series that are not missing, in row order
RECURSIVE dropna(_)
dropna(series) ==
    IF series = <<>> THEN <<>>
    ELSE IF IsNumber(Head(series)) THEN <<Val100(Head(series))>> \o dropna(Tail(series))
    ELSE dropna(Tail(series))

RECURSIVE seq_sum(_)
seq_sum(s) == IF s = <<>> THEN 0 ELSE Head(s) + seq_sum(Tail(s))

\* ascending insertion of x into a sorted sequence
RECURSIVE insert_sorted(_, _)
insert_sorted(x, s) ==
    IF s = <<>> THEN <<x>>
    ELSE IF x <= Head(s) THEN <<x>> \o s
    ELSE <<Head(s)>> \o insert_sorted(x, Tail(s))

RECURSIVE sorted(_)
sorted(s) == IF s = <<>> THEN <<>> ELSE insert_sorted(Head(s), sorted(Tail(s)))

\* series.mean(): missing values are skipped; NaN when nothing is left
series_mean(series) ==
    LET v == dropna(series)
    IN  IF v = <<>> THEN NaN ELSE PyFloat(seq_sum(v), 100 * Len(v))

\* series.quantile(0.95), linear interpolation between the nearest ranks
series_quantile95(series) ==
    LET v == sorted(dropna(series))
        h100 == 95 * (Len(v) - 1)
        lo == (h100 \div 100) + 1
        part == h100 % 100
    IN  IF v = <<>> THEN NaN
        ELSE IF part = 0 THEN PyFloat(100 * v[lo], 10000)
        ELSE PyFloat(100 * v[lo] + part * (v[lo + 1] - v[lo]), 10000)

\* (series >= threshold).sum()
count_greater_or_equal(series, threshold) ==
    LET hit == [r \in 1..Len(series) |->
                   IF IsNumber(series[r]) /\ Val100(series[r]) >= 100 * threshold
                   THEN 1 ELSE 0]
    IN  seq_sum(hit)

\* (series > threshold).sum(): a missing value compares False
count_greater(series, threshold) ==
    LET hit == [r \in 1..Len(series) |->
                   IF IsNumber(series[r]) /\ Val100(series[r]) > 100 * threshold
                   THEN 1 ELSE 0]
    IN  seq_sum(hit)

Pow10(e) == IF e = 3 THEN 1000 ELSE 1000000

RECURSIVE GCD(_, _)
GCD(a, b) == IF b = 0 THEN a ELSE GCD(b, a % b)

\* round(x, ndigits) of a non-negative float: to nearest, ties to even.  The
\* whole part and the remainder are scaled apart, and the scale is reduced
\* against the denominator first, to stay inside 32-bit integers.
py_round(x, ndigits) ==
    IF x.k = "nan" THEN NaN
    ELSE LET g == GCD(Pow10(ndigits), x.d)
             scale == Pow10(ndigits) \div g
             den == x.d \div g
             num == (x.n % x.d) * scale
             q == num \div den
             r == num % den
         IN  PyFloat((x.n \div x.d) * Pow10(ndigits)
                       + (IF 2 * r < den THEN q
                          ELSE IF 2 * r > den THEN q + 1
                          ELSE IF q % 2 = 0 THEN q ELSE q + 1),
                     Pow10(ndigits))

\* x >= 1.5
greater_or_equal_1_5(x) == x.k # "nan" /\ 2 * x.n >= 3 * x.d

\* x > 1.5 for a float x: NaN compares False
greater_than_1_5(x) == x.k # "nan" /\ 2 * x.n > 3 * x.d

\* x / 100.0
div_100(x) == IF x.k = "nan" THEN NaN ELSE PyFloat(x.n, 100 * x.d)

----------------------------------------------------------------------------
(* latency_check: the stages of the handler *)

HTTPException(status_code, detail) == [status_code |-> status_code, detail |-> detail]

\* the 500 without the load error in its detail
load_failure_without_error(load_error) ==
    HTTPException(500, [message |-> "Telemetry CSV not loaded", load_error |-> PyNone])

\* the 500 raised when the table was not loaded; the detail carries _load_error
load_failure(load_error) ==
    HTTPException(500, [message |-> "Telemetry CSV not loaded", load_error |-> load_error])

\* df = _df: no copy, the request works on the shared frame
df_alias(ref, w) == ref

\* df = _df.copy(): a new frame object, owned by the request
df_copy(ref, w) == [k |-> "ref", id |-> w]

\* the three _find_column calls
resolve_columns(columns) ==
    [latency_col |-> _find_column(columns, LATENCY_CANDIDATES),
     region_col |-> _find_column(columns, REGION_CANDIDATES),
     uptime_col |-> _find_column(columns, UPTIME_CANDIDATES)]

\* uptime treated as mandatory too
missing_role_with_uptime(c) ==
    IF c.latency_col = PyNone THEN PyStr("latency")
    ELSE IF c.region_col = PyNone THEN PyStr("region")
    ELSE IF c.uptime_col = PyNone THEN PyStr("uptime")
    ELSE PyNone

\* region tested before latency
missing_role_region_first(c) ==
    IF c.region_col = PyNone THEN PyStr("region")
    ELSE IF c.latency_col = PyNone THEN PyStr("latency")
    ELSE PyNone

\* the role whose absence makes the handler raise, None when it goes on:
\* latency is tested first, then region; uptime is not tested
missing_role(c) ==
    IF c.latency_col = PyNone THEN PyStr("latency")
    ELSE IF c.region_col = PyNone THEN PyStr("region")
    ELSE PyNone

\* the names the 400 detail lists for a role (the texts of the two messages)
expected_names(role) ==
    IF role = "latency" THEN SubSeq(LATENCY_CANDIDATES, 1, 4)
    ELSE SubSeq(REGION_CANDIDATES, 1, 3)

schema_failure(role) ==
    HTTPException(400, [roles |-> {role}, expected |-> expected_names(role)])

\* df[latency_col] = to_numeric(...); the same for uptime_col when resolved
coerce_columns(frame, c) ==
    LET f1 == set_column(frame, c.latency_col.s,
                         to_numeric(get_column(frame, c.latency_col.s)))
    IN  IF c.uptime_col # PyNone
        THEN set_column(f1, c.uptime_col.s, to_numeric(get_column(f1, c.uptime_col.s)))
        ELSE f1

REGION_NORM == <<"_","r","e","g","i","o","n","_","n","o","r","m">>

\* df["_region_norm"] = ...: stripped and lowercased text for an object
\* column, the plain str() of the values otherwise
normalize_region(frame, c) ==
    LET series == get_column(frame, c.region_col.s)
        text == astype_str(series)
    IN  set_column(frame, REGION_NORM,
            IF series_dtype(series) = "object"
            THEN [r \in 1..Len(series) |-> PyStr(str_lower(str_strip(text[r].s)))]
            ELSE text)

\* region_key = str(region).strip().lower()
region_key(region) == str_lower(str_strip(region))

\* df[df["_region_norm"] == region_key]
select_region(frame, key) ==
    LET n == column_index(frame, REGION_NORM)
        match(row) == row[n] = PyStr(key)
    IN  [frame EXCEPT !.rows = SelectSeq(frame.rows, match)]

NO_DATA ==
    [avg_latency |-> PyNone, p95_latency |-> PyNone, avg_uptime |-> PyNone,
     breaches |-> PyInt(0)]

\* d[key] = value
dict_set(d, key, value) ==
    [x \in (DOMAIN d) \cup {key} |-> IF x = key THEN value ELSE d[x]]

\* a region without rows gets no entry (the loop only continues)
store_no_data_skipped(out, region) == out

\* the branch of the loop for a region without rows: out[region] = {...}; continue
store_no_data(out, region) == dict_set(out, region, NO_DATA)

\* the rescale of the raw mean: divided by 100 when it exceeds 1.5
rescale_uptime(avg_uptime_raw) ==
    IF greater_than_1_5(avg_uptime_raw) THEN div_100(avg_uptime_raw)
    ELSE avg_uptime_raw

\* avg_uptime: None without an uptime column, else the rescaled mean
uptime_metric(region_df, c) ==
    IF c.uptime_col # PyNone
    THEN rescale_uptime(series_mean(get_column(region_df, c.uptime_col.s)))
    ELSE PyNone

\* the metrics of a region that has rows
region_entry(region_df, c, threshold_ms) ==
    LET latency == get_column(region_df, c.latency_col.s)
        avg_uptime == uptime_metric(region_df, c)
    IN  [avg_latency |-> py_round(series_mean(latency), 3),
         p95_latency |-> py_round(series_quantile95(latency), 3),
         avg_uptime |-> IF avg_uptime # PyNone THEN py_round(avg_uptime, 6) ELSE PyNone,
         breaches |-> PyInt(count_greater(latency, threshold_ms))]

\* for region in payload.regions: ...
RECURSIVE region_loop(_, _, _, _, _)
region_loop(frame, c, p, i, out) ==
    IF i > Len(p.regions) THEN out
    ELSE LET region == p.regions[i]
             region_df == select_region(frame, region_key(region))
         IN  region_loop(frame, c, p, i + 1,
                 IF region_df.rows = <<>> THEN store_no_data(out, region)
                 ELSE dict_set(out, region, region_entry(region_df, c, p.threshold_ms)))

----------------------------------------------------------------------------
(* The inputs: telemetry.csv files and request payloads *)

Workers == {"w1", "w2"}
TELEMETRY == "telemetry"
ObjectIds == {TELEMETRY} \cup Workers

\* the sequences over S of length lo..hi
SeqsOf(S, lo, hi) == UNION {[1..n -> S] : n \in lo..hi}

\* records of a CSV file as (region, latency, uptime) texts
CsvRecords ==
    { <<<<"U","S","-","E","a","s","t"," ">>, <<"1","0","0">>, <<"0",".","9","9">>>>,
      <<<<"u","s","-","e","a","s","t">>, <<"3","0","0">>, <<"9","9">>>>,
      <<<<"u","s","-","e","a","s","t">>, <<"n","/","a">>, <<"2",".","0","1">>>>,
      <<<<"5">>, <<"1","5","0">>, <<>> >> }

\* headers, with the field of the record each column holds
CsvLayouts ==
    { [columns |-> <<<<"R","e","g","i","o","n">>, <<"l","a","t","e","n","c","y","_","m","s">>, <<"u","p","t","i","m","e">>>>, field |-> <<1, 2, 3>>],
      [columns |-> <<<<"r","e","g","i","o","n">>, <<"l","a","t","e","n","c","y","_","m","s">>>>, field |-> <<1, 2>>],
      [columns |-> <<<<"l","a","t","e","n","c","y","_","m","s">>, <<"r","e","g","i","o","n","_","g","r","o","u","p">>>>, field |-> <<2, 1>>],
      [columns |-> <<<<"p","i","n","g","_","l","o","c","a","t","i","o","n">>, <<"u","p","t","i","m","e">>>>, field |-> <<1, 3>>],
      [columns |-> <<<<"t","i","m","e","s","t","a","m","p">>, <<"v","a","l","u","e">>>>, field |-> <<1, 2>>],
      [columns |-> <<<<"a","r","e","a">>, <<"v","a","l","u","e">>>>, field |-> <<1, 2>>],
      [columns |-> <<<<"r","t","t">>, <<"v","a","l","u","e">>>>, field |-> <<2, 3>>] }

csv_file(layout, records) ==
    [columns |-> layout.columns,
     rows |-> [r \in 1..Len(records) |->
                 [c \in 1..Len(layout.columns) |-> records[r][layout.field[c]]]]]

CsvFiles ==
    {csv_file(layout, records) :
        layout \in CsvLayouts, records \in SeqsOf(CsvRecords, 1, MaxRows)}

RegionKeys == {<<"u","s","-","e","a","s","t">>, <<"U","S","-","E","a","s","t"," ">>, <<"5">>}
Thresholds == {100, 150}

Payloads ==
    {[regions |-> regions, threshold_ms |-> threshold] :
        regions \in SeqsOf(RegionKeys, 1, MaxRegions), threshold \in Thresholds}

\* str(e) of the exception read_csv raised
LoadErrors == {"No such file or directory", "Error tokenizing data"}

\* column names of the headers of the resolver specification
ColumnNames ==
    { <<"l","a","t","e","n","c","y","_","m","s">>, <<"L","a","t","e","n","c","y">>, <<"a","v","g","_","l","a","t","e","n","c","y">>, <<"p","i","n","g","_","l","o","c","a","t","i","o","n">>, <<"s","t","a","r","t","u","p","_","r","t","t">>,
      <<"R","e","g","i","o","n">>, <<"R","E","G","I","O","N">>, <<"r","e","g","i","o","n","_","g","r","o","u","p">>, <<"a","r","e","a">>, <<"u","p","t","i","m","e">>, <<"t","i","m","e","s","t","a","m","p">> }

HeaderFiles ==
    {[columns |-> columns, rows |-> <<>>] :
        columns \in {h \in SeqsOf(ColumnNames, 1, MaxCols) :
                        \A i, j \in DOMAIN h : h[i] = h[j] => i = j}}

HeaderPayloads == {[regions |-> <<<<"u","s","-","e","a","s","t">>>>, threshold_ms |-> 150]}

\* the files and payloads of the two-request specification
SmallFiles ==
    {csv_file(layout, records) :
        layout \in {l \in CsvLayouts : l.columns[1] \in {<<"R","e","g","i","o","n">>, <<"l","a","t","e","n","c","y","_","m","s">>, <<"t","i","m","e","s","t","a","m","p">>}},
        records \in { << <<<<"U","S","-","E","a","s","t"," ">>, <<"1","0","0">>, <<"0",".","9","9">>>>, <<<<"u","s","-","e","a","s","t">>, <<"3","0","0">>, <<"9","9">>>> >>,
                      << <<<<"u","s","-","e","a","s","t">>, <<"n","/","a">>, <<"2",".","0","1">>>> >> }}

SmallPayloads ==
    {[regions |-> <<<<"u","s","-","e","a","s","t">>>>, threshold_ms |-> 150],
     [regions |-> <<<<"U","S","-","E","a","s","t"," ">>, <<"5">>>>, threshold_ms |-> 100]}

----------------------------------------------------------------------------
(* The state machine *)

IDLE == [w \in Workers |-> PyNone]

\* lines 24-30: the load at import time
Load(files) ==
    /\ pc = [w \in Workers |-> "idle"]
    /\ payload = IDLE /\ df = IDLE /\ cols = IDLE /\ response = IDLE
    /\ \/ \E csv \in files :
            /\ _df = [k |-> "ref", id |-> TELEMETRY]
            /\ _load_error = PyNone
            /\ loaded = read_csv(csv)
            /\ heap = [o \in ObjectIds |-> IF o = TELEMETRY THEN read_csv(csv) ELSE Unallocated]
       \/ \E e \in LoadErrors :
            /\ _df = PyNone
            /\ _load_error = PyStr(e)
            /\ loaded = Unallocated
            /\ heap = [o \in ObjectIds |-> Unallocated]

\* a request enters latency_check and finds no table: raise 500
RaiseNotLoaded(w, p) ==
    /\ pc[w] = "idle"
    /\ _df = PyNone
    /\ payload' = [payload EXCEPT ![w] = p]
    /\ response' = [response EXCEPT ![w] = load_failure(_load_error)]
    /\ pc' = [pc EXCEPT ![w] = "done"]
    /\ UNCHANGED <<_df, _load_error, heap, loaded, df, cols>>

\* a request enters latency_check: df = _df.copy()
CopyFrame(w, p) ==
    /\ pc[w] = "idle"
    /\ _df # PyNone
    /\ payload' = [payload EXCEPT ![w] = p]
    /\ LET ref == df_copy(_df, w)
       IN  /\ df' = [df EXCEPT ![w] = ref]
           /\ heap' = [heap EXCEPT ![ref.id] = heap[_df.id]]
    /\ pc' = [pc EXCEPT ![w] = "resolve"]
    /\ UNCHANGED <<_df, _load_error, loaded, cols, response>>

\* lines 56-63: resolve the three roles, raise 400 for a missing mandatory one
ResolveColumns(w) ==
    /\ pc[w] = "resolve"
    /\ LET c == resolve_columns(heap[df[w].id].columns)
       IN  /\ cols' = [cols EXCEPT ![w] = c]
           /\ IF missing_role(c) # PyNone
              THEN /\ response' = [response EXCEPT ![w] = schema_failure(missing_role(c).s)]
                   /\ pc' = [pc EXCEPT ![w] = "done"]
              ELSE /\ pc' = [pc EXCEPT ![w] = "coerce"]
                   /\ UNCHANGED response
    /\ UNCHANGED <<_df, _load_error, heap, loaded, payload, df>>

\* lines 66-68: numeric coercion, written into df
CoerceColumns(w) ==
    /\ pc[w] = "coerce"
    /\ heap' = [heap EXCEPT ![df[w].id] = coerce_columns(heap[df[w].id], cols[w])]
    /\ pc' = [pc EXCEPT ![w] = "normalize"]
    /\ UNCHANGED <<_df, _load_error, loaded, payload, df, cols, response>>

\* lines 72-76: the _region_norm column, written into df
NormalizeRegion(w) ==
    /\ pc[w] = "normalize"
    /\ heap' = [heap EXCEPT ![df[w].id] = normalize_region(heap[df[w].id], cols[w])]
    /\ pc' = [pc EXCEPT ![w] = "aggregate"]
    /\ UNCHANGED <<_df, _load_error, loaded, payload, df, cols, response>>

\* lines 78-114: the loop over payload.regions and the return of out
Aggregate(w) ==
    /\ pc[w] = "aggregate"
    /\ response' = [response EXCEPT ![w] =
          [status_code |-> 200,
           out |-> region_loop(heap[df[w].id], cols[w], payload[w], 1, <<>>)]]
    /\ pc' = [pc EXCEPT ![w] = "done"]
    /\ UNCHANGED <<_df, _load_error, heap, loaded, payload, df, cols>>

\* the response is sent; the locals of the call are dropped and the copy,
\* which nothing references any more, is collected
Finish(w) ==
    /\ pc[w] = "done"
    /\ pc' = [pc EXCEPT ![w] = "idle"]
    /\ payload' = [payload EXCEPT ![w] = PyNone]
    /\ df' = [df EXCEPT ![w] = PyNone]
    /\ cols' = [cols EXCEPT ![w] = PyNone]
    /\ response' = [response EXCEPT ![w] = PyNone]
    /\ heap' = [heap EXCEPT ![w] = Unallocated]
    /\ UNCHANGED <<_df, _load_error, loaded>>

Handle(w, payloads) ==
    \/ \E p \in payloads : RaiseNotLoaded(w, p)
    \/ \E p \in payloads : CopyFrame(w, p)
    \/ ResolveColumns(w)
    \/ CoerceColumns(w)
    \/ NormalizeRegion(w)
    \/ Aggregate(w)
    \/ Finish(w)

\* one request at a time, over the generated tables and payloads
Init == Load(CsvFiles)
Next == Handle("w1", Payloads)
Spec == Init /\ [][Next]_vars

\* two requests in flight (the endpoint is a sync def: it runs on a thread pool)
InitConc == Load(SmallFiles)
NextConc == \E w \in Workers : Handle(w, SmallPayloads)
SpecConc == InitConc /\ [][NextConc]_vars

\* one request at a time over header-only files with every column order
InitResolve == Load(HeaderFiles)
NextResolve == Handle("w1", HeaderPayloads)
SpecResolve == InitResolve /\ [][NextResolve]_vars

----------------------------------------------------------------------------
(* Properties: vocabulary *)

Roles == {"latency", "region", "uptime"}

candidates_of(role) ==
    IF role = "latency" THEN LATENCY_CANDIDATES
    ELSE IF role = "region" THEN REGION_CANDIDATES
    ELSE UPTIME_CANDIDATES

found_of(c, role) ==
    IF role = "latency" THEN c.latency_col
    ELSE IF role = "region" THEN c.region_col
    ELSE c.uptime_col

Min(S) == CHOOSE x \in S : \A y \in S : x <= y

\* a request has passed the resolver (with or without raising)
Resolved(w) == cols[w] # PyNone

\* a request has returned out
Returned(w) == pc[w] = "done" /\ response[w].status_code = 200

\* the frame the request works on, and its columns as the loop reads them
Frame(w) == heap[df[w].id]
NormOf(w) == get_column(Frame(w), REGION_NORM)
LatencyOf(w) == get_column(Frame(w), cols[w].latency_col.s)
UptimeOf(w) == get_column(Frame(w), cols[w].uptime_col.s)

\* the rows the loop selects for a requested region
Matched(w, region) ==
    {r \in 1..Len(Frame(w).rows) : NormOf(w)[r] = PyStr(str_lower(str_strip(region)))}

Requested(w) == {payload[w].regions[i] : i \in DOMAIN payload[w].regions}

\* latency_check as a function of a frame and a payload, start to end
Respond(frame, p) ==
    LET c == resolve_columns(frame.columns)
    IN  IF missing_role(c) # PyNone THEN schema_failure(missing_role(c).s)
        ELSE [status_code |-> 200,
              out |-> region_loop(normalize_region(coerce_columns(frame, c), c),
                                  c, p, 1, <<>>)]

----------------------------------------------------------------------------
(* C1, C10: the column resolver *)

\* the candidates (by priority index) that equal some column name lowercased
ExactCandidates(columns, cands) ==
    {c \in DOMAIN cands : \E i \in DOMAIN columns : str_lower(columns[i]) = cands[c]}

\* the columns (by position) whose lowercased name contains some candidate
SubstringColumns(columns, cands) ==
    {i \in DOMAIN columns :
        \E c \in DOMAIN cands : str_contains(cands[c], str_lower(columns[i]))}

\* C1: when some candidate equals a column name case-insensitively, the
\* resolver returns a column of the table whose lowercased name is the
\* highest-priority such candidate, wherever the columns sit in table order.
C1_ExactMatchPreferred ==
    \A w \in Workers : Resolved(w) =>
        \A role \in Roles :
            LET cands == candidates_of(role)
                found == found_of(cols[w], role)
                exact == ExactCandidates(loaded.columns, cands)
            IN  exact # {} =>
                    /\ found # PyNone
                    /\ \E i \in DOMAIN loaded.columns : loaded.columns[i] = found.s
                    /\ str_lower(found.s) = cands[Min(exact)]

\* a column that only contains "latency" stands before the exact match, and
\* the exact match is returned
C1_Witness ==
    \E w \in Workers :
        /\ Resolved(w)
        /\ loaded.columns = <<<<"a","v","g","_","l","a","t","e","n","c","y">>, <<"L","a","t","e","n","c","y">>>>
        /\ cols[w].latency_col = PyStr(<<"L","a","t","e","n","c","y">>)

\* C10: when no candidate equals a column name, the resolver returns the
\* first column in table order that contains any candidate, and None exactly
\* when no column contains one.
C10_SubstringFallback ==
    \A w \in Workers : Resolved(w) =>
        \A role \in Roles :
            LET cands == candidates_of(role)
                found == found_of(cols[w], role)
                hits == SubstringColumns(loaded.columns, cands)
            IN  ExactCandidates(loaded.columns, cands) = {} =>
                    IF hits = {} THEN found = PyNone
                    ELSE found = PyStr(loaded.columns[Min(hits)])

\* the earlier column matches the last candidate "ping", the later column the
\* second candidate "latency": the earlier column is returned
C10_Witness ==
    \E w \in Workers :
        /\ Resolved(w)
        /\ loaded.columns = <<<<"p","i","n","g","_","l","o","c","a","t","i","o","n">>, <<"a","v","g","_","l","a","t","e","n","c","y">>>>
        /\ cols[w].latency_col = PyStr(<<"p","i","n","g","_","l","o","c","a","t","i","o","n">>)
        /\ cols[w].uptime_col = PyNone

----------------------------------------------------------------------------
(* C2: requested regions without rows *)

\* C2: in every returned response each requested region has an entry; a
\* region that selects no row has the entry {None, None, None, 0}; and every
\* entry is the one the same region gets when it is requested alone, so a
\* region without rows changes no other entry.
C2_NoDataEntry ==
    \A w \in Workers : Returned(w) =>
        /\ DOMAIN response[w].out = Requested(w)
        /\ \A region \in Requested(w) :
              /\ Matched(w, region) = {} => response[w].out[region] = NO_DATA
              /\ response[w].out[region] =
                    region_loop(Frame(w), cols[w],
                                [payload[w] EXCEPT !.regions = <<region>>],
                                1, <<>>)[region]

\* a region without rows is requested before a region that has rows
C2_Witness ==
    \E w \in Workers :
        /\ Returned(w)
        /\ payload[w].regions = <<<<"5">>, <<"u","s","-","e","a","s","t">>>>
        /\ Matched(w, <<"5">>) = {}
        /\ response[w].out[<<"5">>] = NO_DATA
        /\ response[w].out[<<"u","s","-","e","a","s","t">>] # NO_DATA

----------------------------------------------------------------------------
(* C3: no uptime column *)

\* the loaded table with a numeric column named uptime appended
WithUptime(frame) ==
    [frame EXCEPT !.columns = Append(frame.columns, <<"u","p","t","i","m","e">>),
                  !.rows = [r \in 1..Len(frame.rows) |->
                               Append(frame.rows[r], PyFloat(99, 100))]]

\* C3: when latency and region resolve and uptime does not, the request
\* returns an entry for every requested region, avg_uptime is None in each,
\* and avg_latency, p95_latency and breaches are those of the same request
\* against the same table with an uptime column added.
C3_UptimeOptional ==
    \A w \in Workers :
        (/\ pc[w] = "done"
         /\ Resolved(w)
         /\ cols[w].latency_col # PyNone
         /\ cols[w].region_col # PyNone
         /\ cols[w].uptime_col = PyNone) =>
            /\ response[w].status_code = 200
            /\ DOMAIN response[w].out = Requested(w)
            /\ LET other == Respond(WithUptime(loaded), payload[w])
               IN  /\ other.status_code = 200
                   /\ \A region \in Requested(w) :
                         LET e == response[w].out[region]
                             o == other.out[region]
                         IN  /\ e.avg_uptime = PyNone
                             /\ e.avg_latency = o.avg_latency
                             /\ e.p95_latency = o.p95_latency
                             /\ e.breaches = o.breaches

\* a request without uptime column returns metrics for a region with rows
C3_Witness ==
    \E w \in Workers :
        /\ Returned(w)
        /\ cols[w].uptime_col = PyNone
        /\ \E region \in Requested(w) :
              /\ response[w].out[region].avg_uptime = PyNone
              /\ response[w].out[region].breaches = PyInt(1)

----------------------------------------------------------------------------
(* C4: breaches *)

\* the selected rows whose coerced latency is a number above the threshold
BreachRows(w, region) ==
    {r \in Matched(w, region) :
        /\ LatencyOf(w)[r].k \in {"int", "float"}
        /\ Val100(LatencyOf(w)[r]) > 100 * payload[w].threshold_ms}

\* C4: for every requested region that selects a row, breaches is the number
\* of selected rows whose coerced latency is a number strictly greater than
\* the threshold.
C4_BreachesStrict ==
    \A w \in Workers : Returned(w) =>
        \A region \in Requested(w) :
            Matched(w, region) # {} =>
                response[w].out[region].breaches =
                    PyInt(Cardinality(BreachRows(w, region)))

\* a region whose rows are one at the threshold and one without numeric
\* latency: no breach
C4_Witness ==
    \E w \in Workers :
        /\ Returned(w)
        /\ \E region \in Requested(w) :
              /\ \E r \in Matched(w, region) :
                    /\ IsNumber(LatencyOf(w)[r])
                    /\ Val100(LatencyOf(w)[r]) = 100 * payload[w].threshold_ms
              /\ \E r \in Matched(w, region) : LatencyOf(w)[r] = NaN
              /\ response[w].out[region].breaches = PyInt(0)

----------------------------------------------------------------------------
(* C5: the uptime rescale *)

RECURSIVE SetSum(_, _)
SetSum(f, S) ==
    IF S = {} THEN 0
    ELSE LET x == CHOOSE y \in S : TRUE IN f[x] + SetSum(f, S \ {x})

\* the selected rows with a numeric uptime, and the sum of their values (in
\* hundredths)
UptimeRows(w, region) == {r \in Matched(w, region) : IsNumber(UptimeOf(w)[r])}
UptimeSum(w, region) ==
    SetSum([r \in UptimeRows(w, region) |-> Val100(UptimeOf(w)[r])],
           UptimeRows(w, region))

\* v (in millionths) is num/den to the nearest millionth
Nearest(v, num, den) == 2 * (v * den - num) <= den /\ 2 * (num - v * den) <= den

----------------------------------------------------------------------------
(* C6: the schema-resolution error *)

\* the mandatory roles a request failed to resolve
Unresolved(w) ==
    {role \in {"latency", "region"} : found_of(cols[w], role) = PyNone}

\* C6 as stated: the 400 names every mandatory role that failed to resolve,
\* both of them when neither resolves.
C6_CitesEveryMissingRole ==
    \A w \in Workers : (pc[w] = "done" /\ Resolved(w) /\ Unresolved(w) # {}) =>
        /\ response[w].status_code = 400
        /\ response[w].detail.roles = Unresolved(w)

\* C6 as the handler behaves: the request fails with a 400 that names one
\* role, the first that failed to resolve in the order latency, region; with
\* neither resolved it names latency alone.
C6_CitesFirstMissingRole ==
    \A w \in Workers : (pc[w] = "done" /\ Resolved(w) /\ Unresolved(w) # {}) =>
        /\ response[w].status_code = 400
        /\ response[w].detail.roles =
              IF "latency" \in Unresolved(w) THEN {"latency"} ELSE {"region"}

\* columns timestamp, value: neither role resolves and the error names latency
C6_Witness ==
    \E w \in Workers :
        /\ pc[w] = "done"
        /\ loaded.columns = <<<<"t","i","m","e","s","t","a","m","p">>, <<"v","a","l","u","e">>>>
        /\ Unresolved(w) = {"latency", "region"}
        /\ response[w].status_code = 400
        /\ response[w].detail.roles = {"latency"}

----------------------------------------------------------------------------
(* C7: the load-failed state *)

\* C7: once the load has failed, every step leaves _df None and _load_error
\* as it was, allocates no frame, resolves no column, and every request that
\* ends has raised the 500 whose detail carries the load error.
C7_LoadFailureIsPermanent ==
    [][_df = PyNone =>
          /\ _df' = PyNone
          /\ _load_error' = _load_error
          /\ _load_error'.k = "str" /\ _load_error'.s \in LoadErrors
          /\ heap' = [o \in ObjectIds |-> Unallocated]
          /\ \A w \in Workers :
                /\ pc'[w] \in {"idle", "done"}
                /\ cols'[w] = PyNone /\ df'[w] = PyNone
                /\ pc'[w] = "done" =>
                      /\ response'[w].status_code = 500
                      /\ response'[w].detail.load_error = _load_error]_vars

\* both requests in flight have failed with the load error
C7_Witness ==
    /\ _df = PyNone
    /\ \A w \in Workers :
          /\ pc[w] = "done"
          /\ response[w].status_code = 500
          /\ response[w].detail.load_error = _load_error

----------------------------------------------------------------------------
(* C8: the shared table is read-only *)

\* C8: while requests interleave, the frame _df refers to is the frame as
\* loaded, every request works on a frame of its own, and every response is
\* the function of the loaded frame and the payload alone.
C8_SharedTableUnchanged ==
    _df # PyNone =>
        /\ _df = [k |-> "ref", id |-> TELEMETRY]
        /\ heap[TELEMETRY] = loaded
        /\ \A w \in Workers :
              /\ df[w] # PyNone => df[w].id # TELEMETRY
              /\ pc[w] = "done" => response[w] = Respond(loaded, payload[w])

\* one request has returned while the other holds a copy it has already
\* coerced and extended with _region_norm
C8_Witness ==
    \E w1, w2 \in Workers :
        /\ w1 # w2
        /\ Returned(w1)
        /\ pc[w2] = "aggregate"
        /\ Frame(w2) # loaded
        /\ heap[TELEMETRY] = loaded

----------------------------------------------------------------------------
(* C9: region matching *)

\* the region column of the table as loaded
RawRegion(w) == get_column(loaded, cols[w].region_col.s)

\* the row's region value and the requested key agree after strip and lower
SameRegion(cell, region) ==
    cell.k = "str" /\ str_lower(str_strip(cell.s)) = str_lower(str_strip(region))

\* C9: for a textual region column, the rows selected for a requested key
\* are exactly the rows whose region value equals the key after trimming and
\* lowercasing both; the entry is stored under the key as requested, and keys
\* that differ only in case or surrounding whitespace get equal entries.
C9_TextualRegionMatch ==
    \A w \in Workers : (Returned(w) /\ series_dtype(RawRegion(w)) = "object") =>
        /\ DOMAIN response[w].out = Requested(w)
        /\ \A region \in Requested(w) :
              Matched(w, region) =
                  {r \in 1..Len(loaded.rows) : SameRegion(RawRegion(w)[r], region)}
        /\ \A a, b \in Requested(w) :
              str_lower(str_strip(a)) = str_lower(str_strip(b)) =>
                  response[w].out[a] = response[w].out[b]

\* the same statement for tables whose region column is not also the column
\* resolved for latency or uptime
C9_DistinctColumns ==
    \A w \in Workers :
        (/\ Returned(w)
         /\ series_dtype(RawRegion(w)) = "object"
         /\ cols[w].region_col \notin {cols[w].latency_col, cols[w].uptime_col}) =>
            /\ DOMAIN response[w].out = Requested(w)
            /\ \A region \in Requested(w) :
                  Matched(w, region) =
                      {r \in 1..Len(loaded.rows) : SameRegion(RawRegion(w)[r], region)}
            /\ \A a, b \in Requested(w) :
                  str_lower(str_strip(a)) = str_lower(str_strip(b)) =>
                      response[w].out[a] = response[w].out[b]

====
